---- MODULE Spec2Model ----
(***************************************************************************)
(* A model of the bencode package of gorrent: the Decoder (stream, pos,    *)
(* Consumed) with Decode and DecodeAll, and the Encoder (Bytes) with       *)
(* Encode.  Byte strings are sequences of byte values (ASCII codes);       *)
(* indices into the stream are 0-based as in the Go source.                *)
(***************************************************************************)
EXTENDS Integers, Sequences, FiniteSets, TLC

VARIABLES
    stream,     \* Decoder.stream: the bytes given to NewDecoder
    pos,        \* Decoder.pos
    Consumed,   \* Decoder.Consumed
    res,        \* what the last Decode / DecodeAll call returned as res
    err,        \* what the last Decode / DecodeAll call returned as err
    op,         \* the last call made on the decoder
    calls,      \* number of Decode / DecodeAll calls since NewDecoder
    decoded,    \* the objects nextObject has returned with a nil error to Decode / DecodeAll, in order
    panicked,   \* a run-time panic (index out of range) has ended the program
    Bytes,      \* Encoder.Bytes
    encIn,      \* the arguments of the Encode calls made on the encoder, in order
    IntSize     \* strconv.IntSize: the width in bits of an int in the build

vars == <<stream, pos, Consumed, res, err, op, calls, decoded, panicked, Bytes, encIn, IntSize>>

decoderVars == <<stream, pos, Consumed, res, err, op, calls, decoded>>

encoderVars == <<Bytes, encIn>>

----------------------------------------------------------------------------
(* Bytes *)

ChI == 105

ChL == 108

ChD == 100

ChE == 101

ChMinus == 45

ChPlus == 43

ChColon == 58

Ch0 == 48

Ch9 == 57

Letters == <<"a", "b", "c", "d", "e", "f", "g", "h", "i", "j", "k", "l", "m",
             "n", "o", "p", "q", "r", "s", "t", "u", "v", "w", "x", "y", "z">>

Numerals == <<"0", "1", "2", "3", "4", "5", "6", "7", "8", "9">>

\* the byte of a one-character Go literal
Ord(c) ==
    IF \E k \in 1..Len(Letters) : Letters[k] = c
    THEN 96 + (CHOOSE k \in 1..Len(Letters) : Letters[k] = c)
    ELSE IF \E k \in 1..Len(Numerals) : Numerals[k] = c
    THEN Ch0 - 1 + (CHOOSE k \in 1..Len(Numerals) : Numerals[k] = c)
    ELSE IF c = ":" THEN ChColon
    ELSE ChMinus

\* []byte("...") of a literal written one character per element
B(lit) == [k \in 1..Len(lit) |-> Ord(lit[k])]

\* stream[i], 0-based; only evaluated where InRange holds
At(s, i) == s[i + 1]

\* an index expression stream[i] panics unless 0 <= i < len(stream)
InRange(s, i) == i >= 0 /\ i < Len(s)

\* stream[a:b]
Slice(s, a, b) == SubSeq(s, a + 1, b)

IsDigit(c) == c >= Ch0 /\ c <= Ch9

----------------------------------------------------------------------------
(* Integers: an int64 (and an int, which is 32 or 64 bits wide) is held as  *)
(* its sign and the decimal digits of its magnitude, written without       *)
(* leading zeros, so that every value of the type can be held              *)

\* the decimal digits of a natural number
RECURSIVE natDigits(_)
natDigits(n) ==
    IF n < 10 THEN <<Ch0 + n>>
    ELSE Append(natDigits(n \div 10), Ch0 + (n % 10))

\* the int64 whose value is the number n
Int64(n) == [neg |-> n < 0, mag |-> natDigits(IF n < 0 THEN 0 - n ELSE n)]

\* 1<<63 - 1 and -1<<63
MaxInt64 ==
    [neg |-> FALSE,
     mag |-> B(<<"9","2","2","3","3","7","2","0","3","6","8","5","4","7","7","5","8","0","7">>)]

MinInt64 ==
    [neg |-> TRUE,
     mag |-> B(<<"9","2","2","3","3","7","2","0","3","6","8","5","4","7","7","5","8","0","8">>)]

\* 1<<31 - 1 and -1<<31
MaxInt32 == [neg |-> FALSE, mag |-> B(<<"2","1","4","7","4","8","3","6","4","7">>)]

MinInt32 == [neg |-> TRUE, mag |-> B(<<"2","1","4","7","4","8","3","6","4","8">>)]

\* 1<<64 - 1 and 1<<32 - 1, as magnitudes
MaxUint64 ==
    B(<<"1","8","4","4","6","7","4","4","0","7","3","7","0","9","5","5","1","6","1","5">>)

MaxUint32 == B(<<"4","2","9","4","9","6","7","2","9","5">>)

\* the widths an int has in a build
IntSizes == {32, 64}

\* the ends of the integers of bitSize bits
MaxInt(bitSize) == IF bitSize = 32 THEN MaxInt32 ELSE MaxInt64

MinInt(bitSize) == IF bitSize = 32 THEN MinInt32 ELSE MinInt64

MaxUint(bitSize) == IF bitSize = 32 THEN MaxUint32 ELSE MaxUint64

\* a < b for magnitudes
magLess(a, b) ==
    \/ Len(a) < Len(b)
    \/ /\ Len(a) = Len(b)
       /\ \E k \in 1..Len(a) : SubSeq(a, 1, k - 1) = SubSeq(b, 1, k - 1) /\ a[k] < b[k]

\* a < b
intLess(a, b) ==
    IF a.neg # b.neg THEN a.neg
    ELSE IF a.neg THEN magLess(b.mag, a.mag)
    ELSE magLess(a.mag, b.mag)

RECURSIVE digitsValue(_)
digitsValue(ds) ==
    IF ds = <<>> THEN 0
    ELSE 10 * digitsValue(SubSeq(ds, 1, Len(ds) - 1)) + (ds[Len(ds)] - Ch0)

\* the number that is the value of v, where v is used as an index of the stream
intValue(v) == IF v.neg THEN 0 - digitsValue(v.mag) ELSE digitsValue(v.mag)

----------------------------------------------------------------------------
(* Values: what an interface{} holds *)

Nil == [kind |-> "nil", val |-> 0]

IntV(n) == [kind |-> "int", val |-> Int64(n)]

StrV(s) == [kind |-> "str", val |-> s]

ListV(l) == [kind |-> "list", val |-> l]

DictV(m) == [kind |-> "dict", val |-> m]

\* errors
ErrNil == "nil"

ErrorConsumed == "This parser's token stream is consumed!"

ErrorNoTerminator == "No terminating 'e' found!"

ErrNoStartingI == "No starting 'i' found"

ErrInvalidByte == "Invalid byte in encoded integer."

ErrNoBytes == "No bytes in integer"

ErrLeadingZeros == "Leading Zeros are not allowed in bencoded integers!"

ErrParseInt == "strconv.ParseInt: invalid syntax"

ErrParseIntRange == "strconv.ParseInt: value out of range"

ErrAtoiSyntax == "strconv.Atoi: invalid syntax"

ErrAtoiRange == "strconv.Atoi: value out of range"

ErrNoLength == "No string length determinator found"

ErrNoString == "No string found ..."

ErrAtoi == "Couldn't parse string length specifier"

ErrTooLong == "Specified length longer than data buffer ..."

ErrNotList == "This is not a list!"

ErrNotDict == "This is not a dict!"

ErrCouldntParse == "Couldn't parse"

\* what a decoding function leaves behind: its results, the decoder's fields,
\* and whether it panicked on the way
Ret(r, e, p, c) == [res |-> r, err |-> e, pos |-> p, Consumed |-> c, panic |-> FALSE]

Panic(p, c) == [res |-> Nil, err |-> ErrNil, pos |-> p, Consumed |-> c, panic |-> TRUE]

----------------------------------------------------------------------------
(* strconv *)

\* the digits of ds after its leading zeros, the last digit at least
RECURSIVE stripZeros(_)
stripZeros(ds) ==
    IF Len(ds) > 1 /\ ds[1] = Ch0 THEN stripZeros(Tail(ds)) ELSE ds

\* the digit loop of strconv.ParseUint(ds, 10, bitSize), n being the value of
\* the bytes already read: the bytes are read from left to right, and the
\* first byte that is not a digit (a syntax error, value 0) or the first digit
\* at which the value passes 1<<bitSize - 1 (a range error, that value) ends
\* the reading
RECURSIVE ParseUintLoop(_, _, _)
ParseUintLoop(ds, n, bitSize) ==
    IF ds = <<>> THEN [mag |-> n, err |-> ErrNil]
    ELSE IF ~IsDigit(Head(ds)) THEN [mag |-> <<Ch0>>, err |-> ErrParseInt]
    ELSE IF magLess(MaxUint(bitSize), stripZeros(Append(n, Head(ds))))
    THEN [mag |-> MaxUint(bitSize), err |-> ErrParseIntRange]
    ELSE ParseUintLoop(Tail(ds), stripZeros(Append(n, Head(ds))), bitSize)

\* strconv.ParseInt(s, 10, bitSize): the value; or 0 and a syntax error; or
\* the nearest integer of bitSize bits and a range error when the digits are
\* outside them
ParseInt(s, bitSize) ==
    LET neg    == s # <<>> /\ s[1] = ChMinus
        ds     == IF s # <<>> /\ s[1] \in {ChMinus, ChPlus} THEN Tail(s) ELSE s
        un     == ParseUintLoop(ds, <<Ch0>>, bitSize)
        cutoff == IF neg THEN MinInt(bitSize) ELSE MaxInt(bitSize)
    IN  IF ds = <<>> \/ un.err = ErrParseInt
        THEN [val |-> Int64(0), ok |-> FALSE, err |-> ErrParseInt]
        ELSE IF magLess(cutoff.mag, un.mag)
        THEN [val |-> cutoff, ok |-> FALSE, err |-> ErrParseIntRange]
        ELSE [val |-> [neg |-> neg /\ un.mag # <<Ch0>>, mag |-> un.mag], ok |-> TRUE, err |-> ErrNil]

\* strconv.Atoi(s): ParseInt(s, 10, 0), 0 standing for the width of an int
Atoi(s) ==
    LET n == ParseInt(s, IntSize) IN
    IF n.ok THEN n
    ELSE [n EXCEPT !.err = IF n.err = ErrParseIntRange THEN ErrAtoiRange ELSE ErrAtoiSyntax]

\* fmt.Sprintf("%d", n)
FormatInt(n) == (IF n.neg THEN <<ChMinus>> ELSE <<>>) \o n.mag

----------------------------------------------------------------------------
(* Decoder *)

\* the for loop of nextInteger: from idx, up to the terminating 'e'
RECURSIVE nextIntegerScan(_, _)
nextIntegerScan(s, idx) ==
    IF ~InRange(s, idx) THEN [idx |-> idx, out |-> "panic"]
    ELSE IF At(s, idx) = ChE THEN [idx |-> idx, out |-> "e"]
    ELSE IF At(s, idx) < Ch0 \/ At(s, idx) > Ch9 THEN [idx |-> idx, out |-> ErrInvalidByte]
    ELSE IF idx + 1 >= Len(s) THEN [idx |-> idx + 1, out |-> ErrorNoTerminator]
    ELSE nextIntegerScan(s, idx + 1)

\* the for loop of nextInteger in the revision of bencode/decoder.go: a '0' met
\* before any other byte of the integer is refused, '-' passes as a digit
RECURSIVE nextIntegerScanFirst(_, _, _)
nextIntegerScanFirst(s, idx, validstart) ==
    IF ~InRange(s, idx) THEN [idx |-> idx, out |-> "panic"]
    ELSE IF At(s, idx) = ChE THEN [idx |-> idx, out |-> "e"]
    ELSE IF At(s, idx) = Ch0 /\ ~validstart THEN [idx |-> idx, out |-> ErrLeadingZeros]
    ELSE IF ~IsDigit(At(s, idx)) /\ At(s, idx) # ChMinus THEN [idx |-> idx, out |-> ErrInvalidByte]
    ELSE IF idx + 1 >= Len(s) THEN [idx |-> idx + 1, out |-> ErrorNoTerminator]
    ELSE nextIntegerScanFirst(s, idx + 1, TRUE)

\* nextInteger as in the revision of bencode/decoder.go, which refuses "i0e"
nextIntegerFirst(s, p, c) ==
    IF ~InRange(s, p) THEN Panic(p, c)
    ELSE IF At(s, p) # ChI THEN Ret(Int64(0), ErrNoStartingI, p, c)
    ELSE LET sc == nextIntegerScanFirst(s, p + 1, FALSE)
             n  == ParseInt(Slice(s, p + 1, sc.idx), 64)
         IN  IF sc.out = "panic" THEN Panic(p, c)
             ELSE IF sc.out # "e" THEN Ret(Int64(0), sc.out, p, c)
             ELSE IF ~n.ok THEN Ret(n.val, n.err, p, c)
             ELSE Ret(n.val, ErrNil, sc.idx + 1, c)

\* fetches next integer from stream and advances pos pointer
nextInteger(s, p, c) ==
    IF ~InRange(s, p) THEN Panic(p, c)
    ELSE IF At(s, p) # ChI THEN Ret(Int64(0), ErrNoStartingI, p, c)
    ELSE LET p1 == p + 1 IN
         IF ~InRange(s, p1) THEN Panic(p1, c)
         ELSE LET start == IF At(s, p1) = ChMinus THEN p1 + 1 ELSE p1
                  sc    == nextIntegerScan(s, start)
                  idx   == sc.idx
                  n     == ParseInt(Slice(s, p1, idx), 64)
              IN  IF sc.out = "panic" THEN Panic(p1, c)
                  ELSE IF sc.out # "e" THEN Ret(Int64(0), sc.out, p1, c)
                  ELSE IF start = idx THEN Ret(Int64(0), ErrNoBytes, p1, c)
                  ELSE IF At(s, start) = Ch0 /\ idx - start > 1 THEN Ret(Int64(0), ErrLeadingZeros, p1, c)
                  ELSE IF ~n.ok THEN Ret(n.val, n.err, p1, c)
                  ELSE Ret(n.val, ErrNil, idx + 1, c)

\* the length scan of nextString: the index of the first ':' at or after len_end,
\* or len(stream) when there is none
RECURSIVE nextStringScan(_, _)
nextStringScan(s, len_end) ==
    IF At(s, len_end) = ChColon THEN len_end
    ELSE IF len_end + 1 >= Len(s) THEN len_end + 1
    ELSE nextStringScan(s, len_end + 1)

\* nextString without the check of the length against the buffer: what is left
\* of the buffer is returned when it is shorter than the length
nextStringTruncating(s, p, c) ==
    IF ~InRange(s, p) THEN Panic(p, c)
    ELSE IF At(s, p) < Ch0 \/ At(s, p) > Ch9 THEN Ret(<<>>, ErrNoLength, p, c)
    ELSE LET len_end == nextStringScan(s, p)
             l       == Atoi(Slice(s, p, len_end))
             last    == IF ~intLess(l.val, Int64(Len(s) - len_end)) THEN Len(s)
                        ELSE len_end + 1 + intValue(l.val)
         IN  IF len_end >= Len(s) THEN Ret(<<>>, ErrNoString, p, c)
             ELSE IF ~l.ok THEN Ret(<<>>, ErrAtoi, p, c)
             ELSE Ret(Slice(s, len_end + 1, last), ErrNil, last, c)

\* nextString counting the ':' twice when it advances pos
nextStringSkipping(s, p, c) ==
    IF ~InRange(s, p) THEN Panic(p, c)
    ELSE IF At(s, p) < Ch0 \/ At(s, p) > Ch9 THEN Ret(<<>>, ErrNoLength, p, c)
    ELSE LET len_end == nextStringScan(s, p)
             l       == Atoi(Slice(s, p, len_end))
         IN  IF len_end >= Len(s) THEN Ret(<<>>, ErrNoString, p, c)
             ELSE IF ~l.ok THEN Ret(<<>>, ErrAtoi, p, c)
             ELSE IF ~intLess(l.val, Int64(Len(s) - len_end)) THEN Ret(<<>>, ErrTooLong, p, c)
             ELSE Ret(Slice(s, len_end + 1, len_end + 1 + intValue(l.val)), ErrNil,
                      len_end + 2 + intValue(l.val), c)

\* fetches next string from stream and advances pos pointer
nextString(s, p, c) ==
    IF ~InRange(s, p) THEN Panic(p, c)
    ELSE IF At(s, p) < Ch0 \/ At(s, p) > Ch9 THEN Ret(<<>>, ErrNoLength, p, c)
    ELSE LET len_end == nextStringScan(s, p)
             l       == Atoi(Slice(s, p, len_end))
         IN  IF len_end >= Len(s) THEN Ret(<<>>, ErrNoString, p, c)
             ELSE IF ~l.ok THEN Ret(<<>>, ErrAtoi, p, c)
             ELSE IF ~intLess(l.val, Int64(Len(s) - len_end)) THEN Ret(<<>>, ErrTooLong, p, c)
             ELSE Ret(Slice(s, len_end + 1, len_end + 1 + intValue(l.val)), ErrNil,
                      len_end + 1 + intValue(l.val), c)

RECURSIVE nextObject(_, _, _), nextListLoop(_, _, _, _), nextDictLoop(_, _, _, _)

\* the for loop of nextList after obj, err = self.nextObject(), which left o;
\* acc is res so far
nextListAppend(s, acc, o) ==
    IF o.panic THEN o
    ELSE IF o.err # ErrNil THEN Ret(acc, o.err, o.pos, o.Consumed)
    ELSE IF o.pos >= Len(s) THEN Ret(Append(acc, o.res), ErrorNoTerminator, o.pos, o.Consumed)
    ELSE IF At(s, o.pos) = ChE THEN Ret(Append(acc, o.res), ErrNil, o.pos + 1, o.Consumed)
    ELSE nextListLoop(s, o.pos, o.Consumed, Append(acc, o.res))

\* the for loop of nextList; acc is res so far
nextListLoop(s, p, c, acc) == nextListAppend(s, acc, nextObject(s, p, c))

\* fetches a list (and its contents) from stream and advances pos
nextList(s, p, c) ==
    IF ~InRange(s, p) THEN Panic(p, c)
    ELSE IF At(s, p) # ChL THEN Ret(<<>>, ErrNotList, p, c)
    ELSE IF ~InRange(s, p + 1) THEN Panic(p + 1, c)
    ELSE IF At(s, p + 1) = ChE THEN Ret(<<>>, ErrNil, p + 2, c)
    ELSE nextListLoop(s, p + 1, c, <<>>)

\* res[key] = val leaving alone a key the map already holds
MapPutKeeping(m, key, val) ==
    [k \in DOMAIN m \cup {key} |-> IF k \in DOMAIN m THEN m[k] ELSE val]

\* res[key] = val
MapPut(m, key, val) ==
    [k \in DOMAIN m \cup {key} |-> IF k = key THEN val ELSE m[k]]

\* the for loop of nextDict after val, err = self.nextObject(), which left v;
\* acc is res so far
nextDictPut(s, acc, key, v) ==
    IF v.panic THEN v
    ELSE IF v.err # ErrNil THEN Ret(acc, v.err, v.pos, v.Consumed)
    ELSE IF v.pos >= Len(s) THEN Ret(MapPut(acc, key, v.res), ErrorNoTerminator, v.pos, v.Consumed)
    ELSE IF At(s, v.pos) = ChE THEN Ret(MapPut(acc, key, v.res), ErrNil, v.pos + 1, v.Consumed)
    ELSE nextDictLoop(s, v.pos, v.Consumed, MapPut(acc, key, v.res))

\* the for loop of nextDict after key, err = self.nextString(), which left k
nextDictValue(s, acc, k) ==
    IF k.panic THEN k
    ELSE IF k.err # ErrNil THEN Ret(acc, k.err, k.pos, k.Consumed)
    ELSE nextDictPut(s, acc, k.res, nextObject(s, k.pos, k.Consumed))

\* the for loop of nextDict; acc is res so far
nextDictLoop(s, p, c, acc) == nextDictValue(s, acc, nextString(s, p, c))

\* fetches a dict
nextDict(s, p, c) ==
    IF ~InRange(s, p) THEN Panic(p, c)
    ELSE IF At(s, p) # ChD THEN Ret(<<>>, ErrNotDict, p, c)
    ELSE IF ~InRange(s, p + 1) THEN Panic(p + 1, c)
    ELSE IF At(s, p + 1) = ChE THEN Ret(<<>>, ErrNil, p + 2, c)
    ELSE nextDictLoop(s, p + 1, c, <<>>)

\* res, err = ...: the typed result x of a decoding function, held in an interface{}
Boxed(x, kind) == IF x.panic THEN x ELSE [x EXCEPT !.res = [kind |-> kind, val |-> x.res]]

\* the switch of nextObject on the byte at pos
nextObjectSwitch(s, p, c) ==
    IF At(s, p) = ChI THEN Boxed(nextInteger(s, p, c), "int")
    ELSE IF At(s, p) = ChL THEN Boxed(nextList(s, p, c), "list")
    ELSE IF At(s, p) = ChD THEN Boxed(nextDict(s, p, c), "dict")
    ELSE IF At(s, p) >= Ch0 /\ At(s, p) <= Ch9 THEN Boxed(nextString(s, p, c), "str")
    ELSE Ret(Nil, ErrCouldntParse, p, c)

\* the end of nextObject: Consumed is set once pos has reached the end
nextObjectReturn(s, r) ==
    IF r.panic THEN r ELSE [r EXCEPT !.Consumed = r.Consumed \/ r.pos >= Len(s)]

\* an end of nextObject that sets Consumed only once pos is past the end
nextObjectReturnLate(s, r) ==
    IF r.panic THEN r ELSE [r EXCEPT !.Consumed = r.Consumed \/ r.pos > Len(s)]

\* nextObject setting Consumed only once pos is past the end of the stream
nextObjectLate(s, p, c) ==
    IF c THEN Ret(Nil, ErrorConsumed, p, c)
    ELSE IF ~InRange(s, p) THEN Panic(p, c)
    ELSE nextObjectReturnLate(s, nextObjectSwitch(s, p, c))

\* fetch the next object at position 'pos' in 'stream'
nextObject(s, p, c) ==
    IF c THEN Ret(Nil, ErrorConsumed, p, c)
    ELSE IF ~InRange(s, p) THEN Panic(p, c)
    ELSE nextObjectReturn(s, nextObjectSwitch(s, p, c))

\* Decode reads one object from the input stream
Decode(s, p, c) == nextObject(s, p, c)

RECURSIVE DecodeAllLoop(_, _, _, _, _)

\* the for loop of DecodeAll after obj, err = self.nextObject(), which left o
DecodeAllAppend(s, acc, o) ==
    IF o.panic THEN o
    ELSE IF o.err # ErrNil THEN Ret(acc, o.err, o.pos, o.Consumed)
    ELSE DecodeAllLoop(s, o.pos, o.Consumed, Append(acc, o.res), ErrNil)

\* the for loop of DecodeAll; acc is res and e is err so far
DecodeAllLoop(s, p, c, acc, e) ==
    IF c THEN Ret(acc, e, p, c)
    ELSE DecodeAllAppend(s, acc, nextObject(s, p, c))

\* DecodeAll with err starting out nil
DecodeAllNilError(s, p, c) == DecodeAllLoop(s, p, c, <<>>, ErrNil)

\* DecodeAll reads all objects from the input stream
DecodeAll(s, p, c) == DecodeAllLoop(s, p, c, <<>>, ErrorConsumed)

----------------------------------------------------------------------------
(* Encoder *)

\* a < b for Go strings: byte-wise lexicographic, a proper prefix first
StringLess(a, b) ==
    LET n    == IF Len(a) < Len(b) THEN Len(a) ELSE Len(b)
        diff == {k \in 1..n : a[k] # b[k]}
    IN  IF diff = {} THEN Len(a) < Len(b)
        ELSE LET k == CHOOSE x \in diff : \A y \in diff : x <= y IN a[k] < b[k]

\* one step of the sort: k put in its place in the sorted sequence
RECURSIVE sortInsert(_, _)
sortInsert(sorted, k) ==
    IF sorted = <<>> THEN <<k>>
    ELSE IF StringLess(k, Head(sorted)) THEN <<k>> \o sorted
    ELSE <<Head(sorted)>> \o sortInsert(Tail(sorted), k)

\* the keys left in the order the map was iterated in
sortStringsUnsorted(keys) == keys

\* sort.Strings(keys)
RECURSIVE sortStrings(_)
sortStrings(keys) ==
    IF keys = <<>> THEN <<>>
    ELSE sortInsert(sortStrings(Tail(keys)), Head(keys))

\* the elements of a set, one after another
RECURSIVE SetToSeq(_)
SetToSeq(S) ==
    IF S = {} THEN <<>>
    ELSE LET x == CHOOSE y \in S : TRUE IN <<x>> \o SetToSeq(S \ {x})

Perms(S) == {p \in [1..Cardinality(S) -> S] : \A i, j \in 1..Cardinality(S) : p[i] = p[j] => i = j}

\* for k := range m: the keys of m in the order this run of the program
\* iterates them. Go leaves the order open: ord, a permutation of 1..n with
\* n >= len(m), picks one, and every order of the keys is picked by some ord
rangeKeys(m, ord) ==
    LET base == SetToSeq(DOMAIN m)
        idx  == SelectSeq(ord, LAMBDA i : i <= Len(base))
    IN  [j \in 1..Len(base) |-> base[idx[j]]]

encodeString(s) ==
    IF Len(s) <= 0 THEN <<>>
    ELSE FormatInt(Int64(Len(s))) \o <<ChColon>> \o s

encodeInteger(i) == <<ChI>> \o FormatInt(i) \o <<ChE>>

RECURSIVE encodeObject(_, _), encodeListLoop(_, _), encodeDictLoop(_, _, _)

\* the range loop of encodeList: the encodings of the elements, appended in order
encodeListLoop(list, ord) ==
    IF list = <<>> THEN <<>>
    ELSE encodeObject(Head(list), ord) \o encodeListLoop(Tail(list), ord)

encodeList(list, ord) ==
    IF Len(list) <= 0 THEN <<>>
    ELSE <<ChL>> \o encodeListLoop(list, ord) \o <<ChE>>

\* the loop of encodeDict over the sorted keys
encodeDictLoop(m, keys, ord) ==
    IF keys = <<>> THEN <<>>
    ELSE encodeString(Head(keys)) \o encodeObject(m[Head(keys)], ord)
             \o encodeDictLoop(m, Tail(keys), ord)

encodeDict(m, ord) ==
    IF Cardinality(DOMAIN m) <= 0 THEN <<>>
    ELSE <<ChD>> \o encodeDictLoop(m, sortStrings(rangeKeys(m, ord)), ord) \o <<ChE>>

\* in is one of the four kinds the encoder accepts
encodeObject(in, ord) ==
    CASE in.kind = "str"  -> encodeString(in.val)
      [] in.kind = "int"  -> encodeInteger(in.val)
      [] in.kind = "list" -> encodeList(in.val, ord)
      [] in.kind = "dict" -> encodeDict(in.val, ord)

NewEncoder == <<>>

\* Encoder.Encode assigning the encoding to enc.Bytes instead of appending it
EncoderEncodeAssigning(bytes, in, ord) ==
    LET b == encodeObject(in, ord) IN
    IF Len(b) > 0 THEN b ELSE bytes

\* Encoder.Encode: what it leaves in enc.Bytes
EncoderEncode(bytes, in, ord) ==
    LET b == encodeObject(in, ord) IN
    IF Len(b) > 0 THEN bytes \o b ELSE bytes

\* Encode is a wrapper for Encoder.Encode. It returns the bencoded byte stream.
Encode(in, ord) == EncoderEncode(NewEncoder, in, ord)

----------------------------------------------------------------------------
(* The encoder of the package's first revision: it writes every value out,  *)
(* the empty ones too, and a map's entries in the order it iterates them.   *)
(* Every range statement over a map takes an order of its own, so a value   *)
(* has a set of encodings. The input buffers of the decoder are built with  *)
(* it.                                                                      *)

encodeString0(s) == FormatInt(Int64(Len(s))) \o <<ChColon>> \o s

encodeInteger0(i) == <<ChI>> \o FormatInt(i) \o <<ChE>>

\* for k, v := range m: every order in which the statement may visit the keys
rangeOrders(m) == {rangeKeys(m, ord) : ord \in Perms(1..Cardinality(DOMAIN m))}

RECURSIVE encodeObject0(_), encodeListLoop0(_), encodeDictLoop0(_, _)

\* what the for loop of encodeList can append: for each element, in order, one
\* of the encodings encodeObject can return for it
encodeListLoop0(list) ==
    IF list = <<>> THEN {<<>>}
    ELSE {a \o b : a \in encodeObject0(Head(list)), b \in encodeListLoop0(Tail(list))}

encodeList0(list) == {<<ChL>> \o x \o <<ChE>> : x \in encodeListLoop0(list)}

\* what the range loop of encodeDict can append when it visits the keys in
\* the order keys
encodeDictLoop0(m, keys) ==
    IF keys = <<>> THEN {<<>>}
    ELSE {encodeString0(Head(keys)) \o a \o b :
             a \in encodeObject0(m[Head(keys)]), b \in encodeDictLoop0(m, Tail(keys))}

encodeDict0(m) ==
    UNION {{<<ChD>> \o x \o <<ChE>> : x \in encodeDictLoop0(m, keys)} : keys \in rangeOrders(m)}

\* the byte strings encodeObject can return for in
encodeObject0(in) ==
    CASE in.kind = "str"  -> {encodeString0(in.val)}
      [] in.kind = "int"  -> {encodeInteger0(in.val)}
      [] in.kind = "list" -> encodeList0(in.val)
      [] in.kind = "dict" -> encodeDict0(in.val)

----------------------------------------------------------------------------
(* Bounds and inputs *)

\* longest buffer of arbitrary bytes given to NewDecoder
MaxLen == 4

\* most Decode / DecodeAll calls made on one decoder
MaxCalls == 3

\* most elements of a list given to Encode
MaxListLen == 2

\* most Encode calls made on one encoder
MaxEncodes == 2

\* most encodings concatenated into one well-formed buffer
MaxConcat == 2

\* most key/value pairs written into one dictionary whose keys may repeat
MaxPairs == 3

Alphabet == {ChI, ChL, ChD, ChE, ChMinus, Ch0, Ch0 + 1, ChColon, Ord("a")}

RawBuffers == UNION {[1..n -> Alphabet] : n \in 0..MaxLen}

SeqsUpTo(S, n) == UNION {[1..k -> S] : k \in 0..n}

\* the keys of the dictionaries in the decoder's inputs
DecKeys == {B(<<"a">>), B(<<"b">>)}

\* the values whose encodings make up the well-formed buffers
DecValues ==
    {IntV(0), IntV(1), IntV(0 - 12), StrV(<<>>), StrV(B(<<"a">>)),
     ListV(<<>>), DictV(<<>>),
     ListV(<<IntV(1)>>), ListV(<<StrV(<<>>), ListV(<<>>)>>), ListV(<<ListV(<<IntV(1)>>)>>),
     ListV(<<DictV(<<>>)>>), ListV(<<DictV(B(<<"a">>) :> IntV(1))>>),
     DictV(B(<<"a">>) :> IntV(1)), DictV(B(<<"a">>) :> ListV(<<>>)),
     DictV(B(<<"a">>) :> DictV(B(<<"b">>) :> StrV(<<>>))),
     DictV((B(<<"a">>) :> StrV(B(<<"b">>))) @@ (B(<<"b">>) :> IntV(0)))}

\* the buffers that Encode(vs[1]), Encode(vs[2]), ... can return, one after another
RECURSIVE encodeAll0(_)
encodeAll0(vs) ==
    IF vs = <<>> THEN {<<>>}
    ELSE {a \o b : a \in encodeObject0(Head(vs)), b \in encodeAll0(Tail(vs))}

\* the buffers that are one well-formed encoding after another, with the values encoded
WellFormedInputs ==
    UNION {{[vals |-> vs, bytes |-> b] : b \in encodeAll0(vs)} :
              vs \in SeqsUpTo(DecValues, MaxConcat) \ {<<>>}}

\* the buffers of the package's tests and documentation
Examples ==
    {B(<<"i","2","3","e","4",":","t","e","s","t","i","1","2","3","e">>),
     B(<<"i","2","3","e">>), B(<<"i","1","2","4","1","4","5","1","2","4","e">>),
     B(<<"i","0","e">>), B(<<"i","e">>), B(<<"i","-","e">>), B(<<"i","1","5","1","5","5">>),
     B(<<"5","5">>), B(<<"i","-","0","e">>), B(<<"i","0","1","2","e">>), B(<<"i","-","0","1","e">>),
     B(<<"5",":","h","e","l","l","o">>), B(<<"6",":","w","o","r","l","d">>),
     B(<<"4",":","s","p","a","m">>), B(<<"l","4",":","s","p","a","m","4",":","e","g","g","s","e">>),
     B(<<"l","i","1","2","4","1","4","5","1","2","4","e","e">>),
     B(<<"l","i","1","5","1","5","5","e","e">>), B(<<"l","e">>), B(<<"l","i","1","5","1","5","5","e">>),
     B(<<"d","4",":","b","l","a","h","i","1","2","4","1","4","5","1","2","4","e","e">>),
     B(<<"d","5",":","h","e","l","l","o","5",":","w","o","r","l","d","e">>), B(<<"d","e">>),
     B(<<"d","4",":","h","i","g","h","i","5","e">>), B(<<"d","5",":","h","i","g","h","i","5","e","e">>),
     B(<<"d","3",":","c","o","w","3",":","m","o","o","4",":","s","p","a","m","4",":","e","g","g","s","e">>)}

\* buffers whose integers and lengths lie at and beyond the ends of int64 and
\* of 32 bits
WideIntegers ==
    {B(<<"i","9","2","2","3","3","7","2","0","3","6","8","5","4","7","7","5","8","0","7","e">>),
     B(<<"i","9","2","2","3","3","7","2","0","3","6","8","5","4","7","7","5","8","0","8","e">>),
     B(<<"i","-","9","2","2","3","3","7","2","0","3","6","8","5","4","7","7","5","8","0","8","e">>),
     B(<<"i","-","9","2","2","3","3","7","2","0","3","6","8","5","4","7","7","5","8","0","9","e">>),
     B(<<"i","2","1","4","7","4","8","3","6","4","8","e">>),
     B(<<"l","i","9","9","9","9","9","9","9","9","9","9","9","9","9","9","9","9","9","9","9","9","e","e">>),
     B(<<"9","9","9","9","9","9","9","9","9","9","9","9","9","9","9","9","9","9","9","9",":","a">>),
     B(<<"9","2","2","3","3","7","2","0","3","6","8","5","4","7","7","5","8","0","7",":","a">>),
     B(<<"0","0","0","0","0","0","0","0","0","0","0","0","0","0","0","0","0","0","0","0","1",":","a">>),
     B(<<"9","9","9","9","9","9","9","9","9","9","9","9","9","9","9","9","9","9","9","9","a",":">>),
     B(<<"4","2","9","4","9","6","7","2","9","6","a",":">>),
     B(<<"2","1","4","7","4","8","3","6","4","8",":","a">>),
     B(<<"2","1","4","7","4","8","3","6","4","7",":","a">>)}

\* the keys of the dictionaries given to Encode: "ab" sorts before "b" by bytes
\* and after it by length, "a" is a prefix of "ab", and the empty key
EncKeys == {B(<<"b">>), B(<<"a", "b">>), B(<<"a">>), <<>>}

\* the orders in which a run may iterate those keys
EncOrders == Perms(1..Cardinality(EncKeys))

Leaves == {IntV(0), IntV(0 - 12), StrV(<<>>), StrV(B(<<"a", "b">>))}

DictLeaves == {IntV(7), StrV(<<>>)}

Inner ==
    {ListV(<<>>), DictV(<<>>), ListV(<<StrV(B(<<"a">>))>>),
     DictV((B(<<"b">>) :> IntV(1)) @@ (B(<<"a", "b">>) :> IntV(2)) @@ (B(<<"a">>) :> StrV(B(<<"b">>))))}

MapsTo(K, V) == UNION {[ks -> V] : ks \in SUBSET K}

\* the dictionary of the documentation: "spam" put in before "cow"
SpamCow ==
    DictV((B(<<"s","p","a","m">>) :> StrV(B(<<"e","g","g","s">>)))
          @@ (B(<<"c","o","w">>) :> StrV(B(<<"m","o","o">>))))

\* the values given to Encode
EncValues ==
    Leaves
    \cup {ListV(l) : l \in SeqsUpTo(Leaves, MaxListLen)}
    \cup {DictV(m) : m \in MapsTo(EncKeys, DictLeaves)}
    \cup {ListV(l) : l \in SeqsUpTo(Inner, MaxListLen)}
    \cup {DictV(m) : m \in MapsTo({B(<<"b">>), B(<<"a", "b">>)}, Inner)}
    \cup {SpamCow, IntV(23), StrV(B(<<"t","e","s","t">>))}

\* the values given to the second and later Encode calls on one encoder
MoreValues ==
    {IntV(0), StrV(<<>>), StrV(B(<<"t","e","s","t">>)), ListV(<<>>), DictV(<<>>),
     DictV((B(<<"b">>) :> IntV(1)) @@ (B(<<"a", "b">>) :> IntV(2)))}

Prefixes(b) == {SubSeq(b, 1, k) : k \in 0..Len(b)}

\* the key/value pairs written one after another into a dictionary; a key may
\* stand in several pairs
PairSeqs ==
    SeqsUpTo([key : DecKeys, val : {IntV(0), IntV(1), ListV(<<StrV(B(<<"a">>))>>)}], MaxPairs) \ {<<>>}

\* the ways of writing the pairs, key then value, one after another
RECURSIVE encodePairs0(_)
encodePairs0(pairs) ==
    IF pairs = <<>> THEN {<<>>}
    ELSE {encodeString0(Head(pairs).key) \o a \o b :
             a \in encodeObject0(Head(pairs).val), b \in encodePairs0(Tail(pairs))}

\* the buffers holding such a dictionary, alone or as the element of a list,
\* with the pairs written into it
DuplicateKeyInputs ==
    UNION {{[pairs |-> ps, inList |-> FALSE, bytes |-> <<ChD>> \o x \o <<ChE>>] :
               x \in encodePairs0(ps)} : ps \in PairSeqs}
    \cup UNION {{[pairs |-> ps, inList |-> TRUE, bytes |-> <<ChL, ChD>> \o x \o <<ChE, ChE>>] :
                    x \in encodePairs0(ps)} : ps \in PairSeqs}

\* what NewDecoder is given: arbitrary short buffers, the well-formed buffers
\* and the examples, and every buffer that is one of those cut short
InputBuffers ==
    RawBuffers \cup UNION {Prefixes(w.bytes) : w \in WellFormedInputs}
               \cup UNION {Prefixes(e) : e \in Examples}
               \cup {w.bytes : w \in DuplicateKeyInputs}
               \cup UNION {Prefixes(e) : e \in WideIntegers}

----------------------------------------------------------------------------
(* The decoder as a state machine *)

\* NewDecoder creates a new decoder for the given token stream
NewDecoder(b) ==
    /\ stream' = b
    /\ pos' = 0
    /\ Consumed' = FALSE
    /\ res' = Nil
    /\ err' = ErrNil
    /\ op' = "NewDecoder"
    /\ calls' = 0
    /\ decoded' = <<>>

\* what a call leaves in the decoder and hands to its caller; a call that
\* panics returns nothing
Returns(name, r, objs) ==
    /\ pos' = r.pos
    /\ Consumed' = r.Consumed
    /\ panicked' = r.panic
    /\ res' = IF r.panic THEN res ELSE r.res
    /\ err' = IF r.panic THEN err ELSE r.err
    /\ decoded' = IF r.panic THEN decoded ELSE decoded \o objs
    /\ op' = name
    /\ calls' = calls + 1
    /\ UNCHANGED <<stream, Bytes, encIn, IntSize>>

DecodeStep ==
    /\ op # "none"
    /\ ~panicked
    /\ calls < MaxCalls
    /\ LET r == Decode(stream, pos, Consumed) IN
       Returns("Decode", r, IF r.err = ErrNil THEN <<r.res>> ELSE <<>>)

DecodeAllStep ==
    /\ op # "none"
    /\ ~panicked
    /\ calls < MaxCalls
    /\ LET r == DecodeAll(stream, pos, Consumed) IN
       Returns("DecodeAll", r, r.res)

Init ==
    /\ stream \in InputBuffers
    /\ pos = 0
    /\ Consumed = FALSE
    /\ res = Nil
    /\ err = ErrNil
    /\ op = "NewDecoder"
    /\ calls = 0
    /\ decoded = <<>>
    /\ panicked = FALSE
    /\ Bytes = NewEncoder
    /\ encIn = <<>>
    /\ IntSize \in IntSizes

Next == DecodeStep \/ DecodeAllStep

Spec == Init /\ [][Next]_vars

----------------------------------------------------------------------------
(* The encoder as a state machine: values are encoded into one Encoder,    *)
(* then a Decoder is made for its Bytes and reads them back                *)

\* enc.Encode(in), while no decoder has been given enc.Bytes yet
EncodeStep ==
    /\ op = "none"
    /\ Len(encIn) < MaxEncodes
    /\ \E in \in (IF encIn = <<>> THEN EncValues ELSE MoreValues) :
          /\ Bytes' \in {EncoderEncode(Bytes, in, ord) : ord \in EncOrders}
          /\ encIn' = Append(encIn, in)
    /\ UNCHANGED <<decoderVars, panicked, IntSize>>

\* NewDecoder(enc.Bytes)
NewDecoderStep ==
    /\ op = "none"
    /\ NewDecoder(Bytes)
    /\ UNCHANGED <<panicked, Bytes, encIn, IntSize>>

InitEnc ==
    /\ stream = <<>>
    /\ pos = 0
    /\ Consumed = FALSE
    /\ res = Nil
    /\ err = ErrNil
    /\ op = "none"
    /\ calls = 0
    /\ decoded = <<>>
    /\ panicked = FALSE
    /\ Bytes = NewEncoder
    /\ encIn = <<>>
    /\ IntSize \in IntSizes

NextEnc == EncodeStep \/ NewDecoderStep \/ DecodeStep \/ DecodeAllStep

SpecEnc == InitEnc /\ [][NextEnc]_vars

----------------------------------------------------------------------------
(* Properties *)

\* the first call on a decoder made for the bytes of a single Encode was Decode
ReadBack ==
    /\ op = "Decode"
    /\ calls = 1
    /\ Len(encIn) = 1
    /\ stream = Bytes

\* C1: round trip: for every value v built from integers, strings, lists and
\* dictionaries (the empty ones included), decoding the bytes of Encode(v) with
\* a fresh Decoder succeeds and returns a value equal to v.
C1_RoundTrip ==
    ReadBack => (~panicked /\ err = ErrNil /\ res = encIn[1])

\* the encoder has encoded exactly the value v
Encoded(v) == op = "none" /\ encIn = <<v>>

\* a value and every value nested in it
RECURSIVE SubValues(_)
SubValues(v) ==
    {v} \cup
    (IF v.kind = "list" THEN UNION {SubValues(v.val[k]) : k \in 1..Len(v.val)}
     ELSE IF v.kind = "dict" THEN UNION {SubValues(v.val[k]) : k \in DOMAIN v.val}
     ELSE {})

\* the enc.Bytes that the calls Encode(vs[1]), ..., in order, leave when every
\* map is iterated in the order ord
RECURSIVE encodeSeq(_, _, _)
encodeSeq(bytes, vs, ord) ==
    IF vs = <<>> THEN bytes
    ELSE encodeSeq(EncoderEncode(bytes, Head(vs), ord), Tail(vs), ord)

\* raw-byte lexicographic order, stated on its own
BytesBefore(a, b) ==
    \/ Len(a) < Len(b) /\ SubSeq(b, 1, Len(a)) = a
    \/ \E k \in 1..Len(a) :
          /\ k <= Len(b)
          /\ SubSeq(a, 1, k - 1) = SubSeq(b, 1, k - 1)
          /\ a[k] < b[k]

StrictlyAscending(keys) ==
    \A k \in 1..(Len(keys) - 1) : BytesBefore(keys[k], keys[k + 1])

\* no empty string, list, dictionary or key anywhere in v
NoEmpty(v) ==
    \A w \in SubValues(v) :
        /\ w.kind \in {"str", "list"} => w.val # <<>>
        /\ w.kind = "dict" => (DOMAIN w.val # {} /\ <<>> \notin DOMAIN w.val)

\* the keys found in the bytes of an encoded dictionary, from index p (after
\* the 'd', or after a value) up to the closing 'e', in the order they stand
RECURSIVE keysInBytes(_, _, _)
keysInBytes(s, p, acc) ==
    IF ~InRange(s, p) THEN [ok |-> FALSE, keys |-> acc]
    ELSE IF At(s, p) = ChE THEN [ok |-> p + 1 = Len(s), keys |-> acc]
    ELSE LET k == nextString(s, p, FALSE) IN
         IF k.panic \/ k.err # ErrNil THEN [ok |-> FALSE, keys |-> acc]
         ELSE LET v == nextObject(s, k.pos, FALSE) IN
              IF v.panic \/ v.err # ErrNil THEN [ok |-> FALSE, keys |-> acc]
              ELSE keysInBytes(s, v.pos, Append(acc, k.res))

\* C2: canonical determinism: whatever order the entries of a dictionary are
\* iterated in, Encode produces the same bytes, at every nesting level; the
\* encoder writes the keys in strictly ascending raw-byte order (in the bytes
\* of a dictionary all of whose parts are written out, the keys stand in that
\* order), and "spam" before "cow" still yields d3:cow3:moo4:spam4:eggse.
C2_CanonicalDeterminism ==
    op = "none" =>
        /\ \A ord \in EncOrders : Bytes = encodeSeq(NewEncoder, encIn, ord)
        /\ \A k \in 1..Len(encIn) : \A w \in SubValues(encIn[k]) : \A ord \in EncOrders :
              w.kind = "dict" =>
                 LET keys == sortStrings(rangeKeys(w.val, ord))
                     out  == Encode(w, ord)
                     found == keysInBytes(out, 1, <<>>)
                 IN  /\ StrictlyAscending(keys)
                     /\ {keys[j] : j \in 1..Len(keys)} = DOMAIN w.val
                     /\ Len(keys) = Cardinality(DOMAIN w.val)
                     /\ NoEmpty(w) => (found.ok /\ found.keys = keys)
        /\ encIn = <<SpamCow>> =>
              Bytes = B(<<"d","3",":","c","o","w","3",":","m","o","o",
                          "4",":","s","p","a","m","4",":","e","g","g","s","e">>)

\* a dictionary has been encoded whose keys sort differently by length and by
\* bytes and whose values are dictionaries of three keys
C2_Witness ==
    /\ op = "none"
    /\ Len(encIn) = 1
    /\ encIn[1].kind = "dict"
    /\ DOMAIN encIn[1].val = {B(<<"b">>), B(<<"a", "b">>)}
    /\ \A k \in DOMAIN encIn[1].val :
          encIn[1].val[k].kind = "dict" /\ Cardinality(DOMAIN encIn[1].val[k].val) > 2
    /\ Len(Bytes) > 2

\* C4: the encoder never emits nothing for an empty value: the empty string
\* yields "0:", the empty list "le", the empty dictionary "de", at top level
\* and as an element of a list or a value or key of a dictionary.
C4_EmptyValuesEncoded ==
    /\ Encoded(StrV(<<>>)) => Bytes = B(<<"0", ":">>)
    /\ Encoded(ListV(<<>>)) => Bytes = B(<<"l", "e">>)
    /\ Encoded(DictV(<<>>)) => Bytes = B(<<"d", "e">>)
    /\ Encoded(ListV(<<StrV(<<>>)>>)) => Bytes = B(<<"l", "0", ":", "e">>)
    /\ Encoded(ListV(<<ListV(<<>>), DictV(<<>>)>>)) => Bytes = B(<<"l", "l", "e", "d", "e", "e">>)
    /\ Encoded(DictV(B(<<"a">>) :> StrV(<<>>))) => Bytes = B(<<"d", "1", ":", "a", "0", ":", "e">>)
    /\ Encoded(DictV(<<>> :> IntV(7))) => Bytes = B(<<"d", "0", ":", "i", "7", "e", "e">>)

\* the first call on the decoder was Decode
FirstDecode == op = "Decode" /\ calls = 1

HasPrefix(s, pre) == Len(s) >= Len(pre) /\ SubSeq(s, 1, Len(pre)) = pre

\* C3: Decode is total: for every byte buffer given to NewDecoder (the empty
\* buffer, a buffer holding only an opening tag, a buffer that ends right after
\* a dictionary key) Decode returns a value or an error and never reads stream
\* at an index outside 0..len(stream)-1.
C3_DecodeTotal ==
    op = "Decode" => ~panicked

\* C5: negative-zero rejection: Decode of an integer whose text is '-' followed
\* by a digit run beginning with '0' ("i-0e") returns an error.
C5_NegativeZeroRejected ==
    (FirstDecode /\ HasPrefix(stream, B(<<"i", "-", "0">>))) => (~panicked /\ err # ErrNil)

\* the stream begins with 'i', a run of digits that starts with '0' and has
\* more than one digit, and the 'e' that ends it
ZeroLedInteger(s) ==
    \E k \in 4..Len(s) :
        /\ s[1] = ChI
        /\ s[2] = Ch0
        /\ \A j \in 2..(k - 1) : IsDigit(s[j])
        /\ s[k] = ChE

\* C6: leading-zero rule: Decode of an integer whose digit run has more than one
\* digit and starts with '0' returns an error (the leading-zeros error when the
\* integer is terminated), while Decode of "i0e" succeeds with the value 0.
C6_LeadingZeroRule ==
    FirstDecode =>
        /\ (HasPrefix(stream, B(<<"i", "0">>)) /\ Len(stream) >= 3 /\ IsDigit(stream[3]))
              => (~panicked /\ err # ErrNil /\ decoded = <<>>)
        /\ ZeroLedInteger(stream) => err = ErrLeadingZeros
        /\ HasPrefix(stream, B(<<"i", "0", "e">>))
              => (~panicked /\ err = ErrNil /\ res = IntV(0) /\ pos = 3)

\* Decode has rejected "i012e" for its leading zero
C6_Witness ==
    /\ FirstDecode
    /\ stream = B(<<"i", "0", "1", "2", "e">>)
    /\ err = ErrLeadingZeros

\* the number a run of decimal digits writes, or some number above most when
\* that number is above most
RECURSIVE decimalFrom(_, _, _)
decimalFrom(ds, acc, most) ==
    IF ds = <<>> \/ acc > most THEN acc
    ELSE decimalFrom(Tail(ds), 10 * acc + (Head(ds) - Ch0), most)

\* the stream is a decimal length, ':' at (1-based) index k, and whatever follows
LengthThenColon(s, k) ==
    /\ k \in 2..Len(s)
    /\ s[k] = ChColon
    /\ \A j \in 1..(k - 1) : IsDigit(s[j])

\* C7: length-exactness of strings: on a buffer that is a decimal length n, ':'
\* and what follows, Decode succeeds if and only if at least n bytes remain
\* after the colon; on success the result is exactly the next n bytes and the
\* cursor is immediately after them; otherwise it returns an error and never a
\* truncated string.
C7_LengthExact ==
    FirstDecode =>
        \A k \in 2..Len(stream) :
            LengthThenColon(stream, k) =>
                LET n    == decimalFrom(SubSeq(stream, 1, k - 1), 0, Len(stream))
                    rest == SubSeq(stream, k + 1, Len(stream))
                IN  /\ ~panicked
                    /\ err = ErrNil <=> Len(rest) >= n
                    /\ err = ErrNil => (res = StrV(SubSeq(rest, 1, n)) /\ pos = k + n)
                    /\ err # ErrNil => (res = StrV(<<>>) /\ decoded = <<>>)

\* Decode has refused "6:world", whose five bytes are one short
C7_Witness ==
    /\ FirstDecode
    /\ stream = B(<<"6", ":", "w", "o", "r", "l", "d">>)
    /\ err = ErrTooLong
    /\ res = StrV(<<>>)

\* every byte string of A followed by every byte string of C
Cat(A, C) == {a \o c : a \in A, c \in C}

RECURSIVE Unterminated(_), UnterminatedDict(_, _)

\* the encodings of a list or dictionary cut off at the end of the buffer: after
\* the opening tag, after any number of complete elements or key/value pairs,
\* after a key with no value, or inside a nested container cut off the same way
Unterminated(v) ==
    IF v.kind = "list" THEN
        UNION {Cat({<<ChL>>}, encodeAll0(SubSeq(v.val, 1, k))) : k \in 0..Len(v.val)}
        \cup UNION {Cat(Cat({<<ChL>>}, encodeAll0(SubSeq(v.val, 1, k - 1))), Unterminated(v.val[k])) :
                       k \in 1..Len(v.val)}
    ELSE IF v.kind = "dict" THEN
        UNION {UnterminatedDict(v.val, keys) : keys \in rangeOrders(v.val)}
    ELSE {}

\* the same for a dictionary whose keys are written in the order keys
UnterminatedDict(m, keys) ==
    LET upTo(k) == Cat({<<ChD>>}, encodeDictLoop0(m, SubSeq(keys, 1, k)))
        key(k)  == {encodeString0(keys[k])}
    IN  UNION {upTo(k) : k \in 0..Len(keys)}
        \cup UNION {Cat(upTo(k - 1), key(k)) : k \in 1..Len(keys)}
        \cup UNION {Cat(Cat(upTo(k - 1), key(k)), Unterminated(m[keys[k]])) : k \in 1..Len(keys)}

UnterminatedInputs == UNION {Unterminated(v) : v \in DecValues}

\* C8: unterminated containers: whenever the buffer ends inside a list or
\* dictionary before its closing 'e', Decode returns ErrorNoTerminator, also
\* when the unterminated container is nested inside another.
C8_Unterminated ==
    (FirstDecode /\ stream \in UnterminatedInputs) => (~panicked /\ err = ErrorNoTerminator)

\* the step is a call of Decode or DecodeAll
Call == calls' = calls + 1

\* C9: exhausted stream: once successful decodes have moved the cursor to the
\* end of the buffer Consumed is true, and every later call of Decode or
\* DecodeAll returns ErrorConsumed with no value and leaves pos and Consumed
\* unchanged; no call on a decoder that is not Consumed returns that error.
C9_ExhaustedStream ==
    [][Call =>
         /\ (~panicked' /\ err' = ErrNil /\ pos' = Len(stream)) => Consumed'
         /\ Consumed =>
               /\ ~panicked'
               /\ err' = ErrorConsumed
               /\ res' = (IF op' = "Decode" THEN Nil ELSE <<>>)
               /\ pos' = pos
               /\ Consumed'
               /\ decoded' = decoded
         /\ (~Consumed /\ ~panicked') => err' # ErrorConsumed
         /\ ErrorConsumed # ErrorNoTerminator]_vars

\* after decodes that took the whole buffer, DecodeAll has returned ErrorConsumed
C9_Witness ==
    /\ op = "DecodeAll"
    /\ err = ErrorConsumed
    /\ res = <<>>
    /\ Len(decoded) >= 2
    /\ pos = Len(stream)
    /\ Consumed

\* the buffer of the Decoder's documentation and the values in it
DocStream == B(<<"i","2","3","e","4",":","t","e","s","t","i","1","2","3","e">>)

DocValues == <<IntV(23), StrV(B(<<"t","e","s","t">>)), IntV(123)>>

\* the well-formed buffers, each with the sequences of values it encodes
WellFormedValues ==
    LET all == WellFormedInputs \cup {[vals |-> DocValues, bytes |-> DocStream]}
    IN  [b \in {w.bytes : w \in all} |-> {w.vals : w \in {x \in all : x.bytes = b}}]

\* C10: DecodeAll on a fresh decoder whose buffer is n >= 1 well-formed
\* encodings one after another returns exactly those n values in buffer order
\* with a nil error and leaves Consumed true; calling Decode until Consumed is
\* true obtains the same n values in the same order.
C10_DecodeAll ==
    stream \in DOMAIN WellFormedValues =>
        \A vals \in WellFormedValues[stream] :
            /\ ~panicked
            /\ Len(decoded) <= Len(vals)
            /\ decoded = SubSeq(vals, 1, Len(decoded))
            /\ Consumed <=> decoded = vals
            /\ Consumed => pos = Len(stream)
            /\ err # ErrNil => (err = ErrorConsumed /\ Consumed)
            /\ (op = "DecodeAll" /\ calls = 1) => (err = ErrNil /\ res = vals)
            /\ (op = "Decode" /\ err = ErrNil) => (calls = Len(decoded) /\ res = vals[calls])

\* DecodeAll has returned the three values of the documented buffer
C10_Witness ==
    /\ op = "DecodeAll"
    /\ calls = 1
    /\ stream = DocStream
    /\ res = DocValues
    /\ err = ErrNil
    /\ Consumed

\* a returned value that holds nothing: nil, or the zero value of its type
NoValue(v) == v \in {Nil, IntV(0), StrV(<<>>), ListV(<<>>), DictV(<<>>)}

\* the last call returned with an error
Failed == op \in {"Decode", "DecodeAll"} /\ ~panicked /\ err # ErrNil

\* C11: no partial results on failure: whenever Decode or DecodeAll returns a
\* non-nil error the value returned with it is nil or empty: a list or
\* dictionary that fails after some elements were parsed is not returned partly
\* built, and DecodeAll does not return the values decoded before the failing one.
C11_NoPartialResults ==
    Failed =>
        /\ op = "Decode" => NoValue(res)
        /\ op = "DecodeAll" => res = <<>>

\* what Encode returns for each of vs alone, one after another
RECURSIVE concatEncodings(_, _)
concatEncodings(vs, ord) ==
    IF vs = <<>> THEN <<>> ELSE Encode(Head(vs), ord) \o concatEncodings(Tail(vs), ord)

\* the keys of every map iterated in the order the model lists them
ListedOrder == [i \in 1..Cardinality(EncKeys) |-> i]

\* C12: encoder accumulation: after any sequence of calls Encode(v1), ...,
\* Encode(vn) on one Encoder, Bytes is the encodings of v1..vn one after
\* another in call order (Encode(23) then Encode("test") gives i23e4:test),
\* and each call leaves the bytes already in Bytes as a prefix of the new
\* Bytes: it appends what Encode returns for its argument alone, whatever the
\* order the maps are iterated in.
C12_EncoderAccumulation ==
    [][/\ Bytes' = concatEncodings(encIn', ListedOrder)
       /\ HasPrefix(Bytes', Bytes)
       /\ encIn' # encIn =>
             \A ord \in EncOrders : Bytes' = Bytes \o Encode(encIn'[Len(encIn')], ord)
       /\ encIn' = <<IntV(23), StrV(B(<<"t","e","s","t">>))>>
             => Bytes' = B(<<"i","2","3","e","4",":","t","e","s","t">>)]_vars

\* Encode(23) then Encode("test") have been called on one encoder
C12_Witness ==
    /\ op = "none"
    /\ encIn = <<IntV(23), StrV(B(<<"t","e","s","t">>))>>
    /\ Bytes = B(<<"i","2","3","e","4",":","t","e","s","t">>)

\* the dictionary with one entry for each key of pairs, bound to the value of
\* the last pair that has the key
LastOccurrences(pairs) ==
    [k \in {pairs[i].key : i \in 1..Len(pairs)} |->
        LET last == CHOOSE i \in 1..Len(pairs) :
                        /\ pairs[i].key = k
                        /\ \A j \in (i + 1)..Len(pairs) : pairs[j].key # k
        IN  pairs[last].val]

\* the buffers holding a dictionary whose keys may repeat, each with the value
\* the claim expects of it
DuplicateKeyValues ==
    [b \in {w.bytes : w \in DuplicateKeyInputs} |->
        LET w == CHOOSE x \in DuplicateKeyInputs : x.bytes = b
            d == DictV(LastOccurrences(w.pairs))
        IN  IF w.inList THEN ListV(<<d>>) ELSE d]

\* C13: duplicate dictionary keys: decoding a dictionary in which the same key
\* occurs more than once succeeds without error and yields a dictionary with
\* one entry for that key, bound to the value of its last occurrence in the
\* buffer; the entries of all other keys are unaffected.
C13_DuplicateKeys ==
    (FirstDecode /\ stream \in DOMAIN DuplicateKeyValues) =>
        /\ ~panicked
        /\ err = ErrNil
        /\ res = DuplicateKeyValues[stream]
        /\ pos = Len(stream)

\* Decode has read d1:ai0e1:bi0e1:ai1ee, where "a" stands twice
C13_Witness ==
    /\ FirstDecode
    /\ stream = B(<<"d","1",":","a","i","0","e","1",":","b","i","0","e","1",":","a","i","1","e","e">>)
    /\ err = ErrNil
    /\ res = DictV((B(<<"a">>) :> IntV(1)) @@ (B(<<"b">>) :> IntV(0)))

\* the step is a call of Decode or DecodeAll that returns
Return == Call /\ ~panicked'

\* C14: cursor invariant: at every return of Decode or DecodeAll, for any
\* buffer and any sequence of calls, 0 <= pos <= len(stream); pos never
\* decreases from one call to the next; Consumed is never reset from true to
\* false; and Consumed is true exactly when pos = len(stream).
C14_CursorInvariant ==
    [][Return =>
         /\ 0 <= pos' /\ pos' <= Len(stream')
         /\ pos' >= pos
         /\ Consumed => Consumed'
         /\ Consumed' <=> pos' = Len(stream')]_vars

\* a Decode that failed inside a list has returned with the cursor moved on,
\* short of the end of the buffer
C14_Witness ==
    /\ op = "Decode"
    /\ calls = 2
    /\ ~panicked
    /\ err # ErrNil
    /\ Len(decoded) = 1
    /\ 0 < pos /\ pos < Len(stream)
    /\ ~Consumed

\* the top-level decodes the DecodeAll of this step made: one for each object
\* it returned and one more for the object that failed
TopLevelDecodes ==
    (Len(decoded') - Len(decoded)) + (IF ~Consumed /\ err' # ErrNil THEN 1 ELSE 0)

\* C15: progress and termination: every successful Decode strictly increases
\* pos, and DecodeAll stops at the first error, so for every finite input
\* buffer DecodeAll terminates after at most len(stream) top-level decodes,
\* either with Consumed true or with an error.
C15_ProgressTermination ==
    [][Call =>
         /\ (op' = "Decode" /\ ~panicked' /\ err' = ErrNil) => pos' > pos
         /\ op' = "DecodeAll" =>
               /\ ~panicked'
               /\ Consumed' \/ err' # ErrNil
               /\ TopLevelDecodes <= Len(stream)
               /\ err' # ErrNil => res' = SubSeq(decoded', Len(decoded) + 1, Len(decoded'))]_vars

====
